---- MODULE Spec2Model ----
(***************************************************************************)
(* Model of the CAD/STL analyzer: src/analyzer.py (AnalysisResult,         *)
(* CADAnalyzer) and src/gui.py (CADAnalyzerApp).                           *)
(*                                                                         *)
(* Numbers.  A Python/numpy float is modelled as a record [n, d]:          *)
(*   d > 0  : the finite value n/d, kept in lowest terms (exact rational   *)
(*            arithmetic; rounding of binary floating point is not         *)
(*            modelled);                                                   *)
(*   d = 0  : n = 1 is +inf, n = -1 is -inf and n = 0 is NaN, with IEEE    *)
(*            semantics: NaN propagates through arithmetic and every       *)
(*            ordered comparison with it is FALSE.                         *)
(* np.linalg.norm needs a square root; it is rounded down to an integer.   *)
(***************************************************************************)
EXTENDS Integers, Sequences, FiniteSets, TLC

VARIABLES disk, files, results, is_imperial, selected_material,
          infill_percent, layer_height, print_speed, wall_count,
          table, dialog, printed, written, clip, uncaught, returned, last

vars == <<disk, files, results, is_imperial, selected_material,
          infill_percent, layer_height, print_speed, wall_count,
          table, dialog, printed, written, clip, uncaught, returned, last>>

(***************************************************************************)
(* Floating point values                                                   *)
(***************************************************************************)
RECURSIVE GCD(_, _)
GCD(a, b) == IF b = 0 THEN a ELSE GCD(b, a % b)

IAbs(i) == IF i < 0 THEN -i ELSE i

Sign(i) == IF i < 0 THEN -1 ELSE IF i > 0 THEN 1 ELSE 0

NaN == [n |-> 0, d |-> 0]
Inf == [n |-> 1, d |-> 0]

IsNaN(a) == a.d = 0 /\ a.n = 0
IsFinite(a) == a.d > 0

\* n/d in lowest terms with a positive denominator; n/0 is an infinity of
\* the sign of n, 0/0 is NaN
Q(n, d) ==
    IF d = 0 THEN [n |-> Sign(n), d |-> 0]
    ELSE LET g == GCD(IAbs(n), IAbs(d))
             s == IF d < 0 THEN -1 ELSE 1
         IN  [n |-> s * (n \div g), d |-> s * (d \div g)]

F(i) == [n |-> i, d |-> 1]

\* inf + (-inf) is NaN, inf + x is inf
FAdd(a, b) ==
    IF a.d = 0 /\ b.d = 0 THEN (IF a.n = b.n THEN a ELSE NaN)
    ELSE IF a.d = 0 THEN a
    ELSE IF b.d = 0 THEN b
    ELSE LET g == GCD(a.d, b.d)
         IN  Q(a.n * (b.d \div g) + b.n * (a.d \div g), (a.d \div g) * b.d)

FNeg(a) == [n |-> -a.n, d |-> a.d]

FSub(a, b) == FAdd(a, FNeg(b))

\* inf * 0 is NaN, inf * x is an infinity of the sign of the product
FMul(a, b) ==
    IF a.d = 0 \/ b.d = 0 THEN Q(Sign(a.n) * Sign(b.n), 0)
    ELSE LET g1 == GCD(IAbs(a.n), b.d)
             g2 == GCD(IAbs(b.n), a.d)
         IN  Q((a.n \div g1) * (b.n \div g2), (a.d \div g2) * (b.d \div g1))

\* a / b for a divisor that is neither zero nor NaN
FDiv(a, b) == FMul(a, Q(b.d, b.n))

FAbs(a) == [n |-> IAbs(a.n), d |-> a.d]

\* the order of the values other than NaN
CrossBelow(a, b, g) == a.n * (b.d \div g) < b.n * (a.d \div g)

Below(a, b) ==
    IF a.d = 0 \/ b.d = 0
    THEN (IF a.d = 0 /\ b.d = 0 THEN a.n < b.n ELSE a.n * b.d < b.n * a.d)
    ELSE CrossBelow(a, b, GCD(a.d, b.d))

FLt(a, b) == ~IsNaN(a) /\ ~IsNaN(b) /\ Below(a, b)
FLe(a, b) == ~IsNaN(a) /\ ~IsNaN(b) /\ ~Below(b, a)
FGt(a, b) == FLt(b, a)
FGe(a, b) == FLe(b, a)
FEq(a, b) == ~IsNaN(a) /\ ~IsNaN(b) /\ ~Below(a, b) /\ ~Below(b, a)

\* Python's builtin min(a, b) and max(a, b): the first argument unless the
\* second compares strictly below (above) it
PyMin(a, b) == IF FLt(b, a) THEN b ELSE a
PyMax(a, b) == IF FGt(b, a) THEN b ELSE a

\* numpy's reductions ndarray.min / ndarray.max over a non-empty collection
\* of values: NaN propagates
NpMin(S) ==
    IF \E x \in S : IsNaN(x) THEN NaN
    ELSE CHOOSE x \in S : \A y \in S : FLe(x, y)

NpMax(S) ==
    IF \E x \in S : IsNaN(x) THEN NaN
    ELSE CHOOSE x \in S : \A y \in S : FGe(x, y)

\* np.sum / sum over the first k entries of s
RECURSIVE SumTo(_, _)
SumTo(s, k) == IF k = 0 THEN F(0) ELSE FAdd(SumTo(s, k - 1), s[k])

NpSum(s) == SumTo(s, Len(s))

\* Newton's iteration from x >= sqrt(n) down to the integer square root
RECURSIVE Newton(_, _)
Newton(n, x) ==
    LET y == (x + n \div x) \div 2
    IN  IF y >= x THEN x ELSE Newton(n, y)

\* the integer square root of n >= 0
ISqrt(n) == IF n < 2 THEN n ELSE Newton(n, IF n < 46340 THEN n ELSE 46340)

(***************************************************************************)
(* sorted(dimensions, reverse=True) on the three extents: list.sort        *)
(* reverses the list, sorts it stably ascending with "<" and reverses the  *)
(* outcome.  For three elements the sort is count_run followed by one      *)
(* binary insertion.                                                       *)
(***************************************************************************)
Reverse3(s) == <<s[3], s[2], s[1]>>

BinaryInsert(a, b, p) ==
    IF FLt(p, b) THEN (IF FLt(p, a) THEN <<p, a, b>> ELSE <<a, p, b>>)
    ELSE <<a, b, p>>

SortAscending3(x) ==
    IF FLt(x[2], x[1])
    THEN (IF FLt(x[3], x[2]) THEN <<x[3], x[2], x[1]>>
          ELSE BinaryInsert(x[2], x[1], x[3]))
    ELSE (IF FLt(x[3], x[2]) THEN BinaryInsert(x[1], x[2], x[3])
          ELSE x)

\* variant: sorted(dimensions) without reverse=True
sorted_ascending(dimensions) == SortAscending3(dimensions)

sorted_reverse(dimensions) == Reverse3(SortAscending3(Reverse3(dimensions)))

(***************************************************************************)
(* Files.  A path is a record [dir, stem, ext]; Path(p).stem is its stem.  *)
(* disk maps a path to what is stored there:                               *)
(*   [kind |-> "missing"]     no such file                                 *)
(*   [kind |-> "unreadable"]  the file cannot be opened                    *)
(*   [kind |-> "corrupt"]     not an STL container (unsupported, truncated)*)
(*   [kind |-> "mesh", tris]  a well-formed STL container holding the      *)
(*                            triangles tris (possibly none); a triangle   *)
(*                            is <<v0, v1, v2>>, a vertex <<x, y, z>>.     *)
(*   [kind |-> "box", size, reversed]                                      *)
(*                            a well-formed STL container holding the 12   *)
(*                            triangles of the closed box of that size,    *)
(*                            wound outward, or inward if reversed.        *)
(***************************************************************************)
V(x, y, z) == <<F(x), F(y), F(z)>>

\* the closed box [0,a] x [0,b] x [0,c], 12 triangles, outward normals
Box(a, b, c) ==
    << <<V(0,0,0), V(0,b,0), V(a,b,0)>>, <<V(0,0,0), V(a,b,0), V(a,0,0)>>,
       <<V(0,0,c), V(a,0,c), V(a,b,c)>>, <<V(0,0,c), V(a,b,c), V(0,b,c)>>,
       <<V(0,0,0), V(a,0,0), V(a,0,c)>>, <<V(0,0,0), V(a,0,c), V(0,0,c)>>,
       <<V(0,b,0), V(a,b,c), V(a,b,0)>>, <<V(0,b,0), V(0,b,c), V(a,b,c)>>,
       <<V(0,0,0), V(0,0,c), V(0,b,c)>>, <<V(0,0,0), V(0,b,c), V(0,b,0)>>,
       <<V(a,0,0), V(a,b,c), V(a,0,c)>>, <<V(a,0,0), V(a,b,0), V(a,b,c)>> >>

\* the same surface with the winding of every triangle reversed
ReverseWinding(vectors) ==
    [i \in 1..Len(vectors) |-> <<vectors[i][1], vectors[i][3], vectors[i][2]>>]

None == [tag |-> "None"]

NoException == "NoException"

\* mesh.Mesh.from_file(filepath): the triangles, or the exception raised
from_file(fs, filepath) ==
    LET c == IF filepath \in DOMAIN fs THEN fs[filepath]
             ELSE [kind |-> "missing"]
    IN  CASE c.kind = "missing"    -> [raised |-> "FileNotFoundError", vectors |-> <<>>]
          [] c.kind = "unreadable" -> [raised |-> "PermissionError", vectors |-> <<>>]
          [] c.kind = "corrupt"    -> [raised |-> "RuntimeError", vectors |-> <<>>]
          [] c.kind = "box" ->
                [raised |-> NoException,
                 vectors |-> IF c.reversed
                             THEN ReverseWinding(Box(c.size[1], c.size[2], c.size[3]))
                             ELSE Box(c.size[1], c.size[2], c.size[3])]
          [] OTHER                 -> [raised |-> NoException, vectors |-> c.tris]

\* the coordinates on axis k of every vertex of every triangle
AxisValues(vectors, k) ==
    {vectors[i][j][k] : i \in 1..Len(vectors), j \in 1..3}

\* stl_mesh.vectors.min(axis=(0, 1)), max(axis=(0, 1)) and their difference
min_coords(vectors) == [k \in 1..3 |-> NpMin(AxisValues(vectors, k))]
max_coords(vectors) == [k \in 1..3 |-> NpMax(AxisValues(vectors, k))]
dimensions(vectors) ==
    LET lo == min_coords(vectors)
        hi == max_coords(vectors)
    IN  [k \in 1..3 |-> FSub(hi[k], lo[k])]

VSub(u, v) == <<FSub(u[1], v[1]), FSub(u[2], v[2]), FSub(u[3], v[3])>>

\* np.cross(edge1, edge2)
Cross(a, b) ==
    <<FSub(FMul(a[2], b[3]), FMul(a[3], b[2])),
      FSub(FMul(a[3], b[1]), FMul(a[1], b[3])),
      FSub(FMul(a[1], b[2]), FMul(a[2], b[1]))>>

\* np.linalg.norm of one row, rounded down
SqrtFloor(s) == IF IsNaN(s) THEN NaN ELSE Q(ISqrt(s.n), ISqrt(s.d))

Norm(c) ==
    SqrtFloor(FAdd(FMul(c[1], c[1]), FAdd(FMul(c[2], c[2]), FMul(c[3], c[3]))))

\* areas = 0.5 * np.linalg.norm(crosses, axis=1)
Areas(vectors) ==
    [i \in 1..Len(vectors) |->
        LET t == vectors[i]
        IN  FMul(Q(1, 2), Norm(Cross(VSub(t[2], t[1]), VSub(t[3], t[1]))))]

\* numpy-stl's get_mass_properties()[0]: with d = (v1 - v0) x (v2 - v0) for
\* each triangle, the signed volume is sum(d.x * (x0 + x1 + x2)) / 6
VolumeTerms(vectors) ==
    [i \in 1..Len(vectors) |->
        LET t == vectors[i]
            d == Cross(VSub(t[2], t[1]), VSub(t[3], t[1]))
        IN  FMul(d[1], FAdd(FAdd(t[1][1], t[2][1]), t[3][1]))]

get_mass_properties(vectors) == FDiv(NpSum(VolumeTerms(vectors)), F(6))

\* variant: a clause "except OSError" in place of "except Exception"
except_OSError(exc) == exc \in {"FileNotFoundError", "PermissionError"}

\* the classes an "except Exception" clause catches
except_Exception(exc) ==
    exc \in {"FileNotFoundError", "PermissionError", "RuntimeError",
             "ValueError", "TypeError"}

\* variant: is_watertight = volume >= 0 and surface_area >= 0
is_watertight_ge(volume, surface_area) ==
    FGe(volume, F(0)) /\ FGe(surface_area, F(0))

\* is_watertight = volume > 0 and surface_area > 0
is_watertight(volume, surface_area) ==
    FGt(volume, F(0)) /\ FGt(surface_area, F(0))

\* variant: the signed volume, without abs()
volume_signed(vectors) == get_mass_properties(vectors)

\* volume = abs(get_mass_properties()[0])
volume_of(vectors) == FAbs(get_mass_properties(vectors))

\* AnalysisResult(filename=..., length=..., ...)
AnalysisResult(filename, sorted_dims, volume, surface_area, triangle_count) ==
    [filename |-> filename,
     length |-> sorted_dims[1],
     width |-> sorted_dims[2],
     height |-> sorted_dims[3],
     volume |-> volume,
     surface_area |-> surface_area,
     triangle_count |-> triangle_count,
     is_watertight |-> is_watertight(volume, surface_area)]

\* the analysis of a loaded, non-empty mesh
analyze_mesh(filepath, vectors) ==
    AnalysisResult(filepath.stem, sorted_reverse(dimensions(vectors)),
                   volume_of(vectors), NpSum(Areas(vectors)), Len(vectors))

\* variant: reductions that give 0 for an empty mesh in place of raising
analyze_loaded_zero(filepath, ld) ==
    IF ld.raised # NoException THEN [raised |-> ld.raised, value |-> None]
    ELSE IF ld.vectors = <<>>
    THEN [raised |-> NoException,
          value |-> AnalysisResult(filepath.stem, <<F(0), F(0), F(0)>>,
                                   F(0), F(0), 0)]
    ELSE [raised |-> NoException, value |-> analyze_mesh(filepath, ld.vectors)]

\* the body of the try block of analyze_stl: the AnalysisResult, or the
\* exception raised on the way
analyze_loaded(filepath, ld) ==
    IF ld.raised # NoException THEN [raised |-> ld.raised, value |-> None]
    \* ndarray.min of a zero-size array raises ValueError
    ELSE IF ld.vectors = <<>> THEN [raised |-> "ValueError", value |-> None]
    ELSE [raised |-> NoException, value |-> analyze_mesh(filepath, ld.vectors)]

analyze_try(fs, filepath) == analyze_loaded(filepath, from_file(fs, filepath))

\* CADAnalyzer.analyze_stl: value is what is returned, printed the lines
\* written to standard output, raised the exception that leaves the call
analyze_except(filepath, t) ==
    IF t.raised = NoException
    THEN [value |-> t.value, printed |-> <<>>, raised |-> NoException]
    ELSE IF except_Exception(t.raised)
    THEN [value |-> None,
          printed |-> <<[text |-> "Error analyzing", file |-> filepath,
                         reason |-> t.raised]>>,
          raised |-> NoException]
    ELSE [value |-> None, printed |-> <<>>, raised |-> t.raised]

analyze_stl(fs, filepath) == analyze_except(filepath, analyze_try(fs, filepath))

P(stem, ext) == [dir |-> "parts", stem |-> stem, ext |-> ext]

CubeStl == P("cube", ".stl")
BracketStl == P("bracket", ".STL")
EmptyStl == P("empty", ".stl")
GoneStl == P("gone", ".stl")
NanStl == P("nan", ".stl")
NotesTxt == P("notes", ".txt")

\* the files of the interactive and batch runs
Catalogue ==
    (CubeStl :> [kind |-> "box", size |-> <<10, 10, 10>>, reversed |-> FALSE])
    @@ (BracketStl :> [kind |-> "box", size |-> <<20, 10, 30>>, reversed |-> TRUE])
    @@ (EmptyStl :> [kind |-> "mesh", tris |-> <<>>])
    @@ (GoneStl :> [kind |-> "missing"])
    @@ (NanStl :> [kind |-> "mesh",
                   tris |-> << <<<<NaN, F(0), F(0)>>, V(10,0,0), V(0,10,0)>> >>])
    @@ (NotesTxt :> [kind |-> "corrupt"])

Paths == DOMAIN Catalogue

\* analyze_stl reads nothing but the file: its outcomes on the catalogue,
\* tabulated
CatalogueOutcome == [p \in Paths |-> analyze_stl(Catalogue, p)]

AnalyzeStlCall(fs, filepath) ==
    IF fs = Catalogue /\ filepath \in Paths THEN CatalogueOutcome[filepath]
    ELSE analyze_stl(fs, filepath)

\* the truth value of "if result:"; an AnalysisResult defines neither
\* __bool__ nor __len__
Truthy(v) == v # None

\* CADAnalyzer.analyze_multiple: the loop over filepaths from position i,
\* and one pass through its body with r the outcome of analyze_stl
RECURSIVE analyze_loop(_, _, _, _, _)
\* variant: a loop that ends at the first file without a result
analyze_body_break(fs, filepaths, i, acc, out, r) ==
    IF r.raised # NoException
    THEN [value |-> None, printed |-> out \o r.printed, raised |-> r.raised]
    ELSE IF ~Truthy(r.value)
    THEN [value |-> acc, printed |-> out \o r.printed, raised |-> NoException]
    ELSE analyze_loop(fs, filepaths, i + 1, Append(acc, r.value),
                      out \o r.printed)

analyze_body(fs, filepaths, i, acc, out, r) ==
    IF r.raised # NoException
    THEN [value |-> None, printed |-> out \o r.printed, raised |-> r.raised]
    ELSE analyze_loop(fs, filepaths, i + 1,
                      IF Truthy(r.value) THEN Append(acc, r.value) ELSE acc,
                      out \o r.printed)

analyze_loop(fs, filepaths, i, acc, out) ==
    IF i > Len(filepaths)
    THEN [value |-> acc, printed |-> out, raised |-> NoException]
    ELSE analyze_body(fs, filepaths, i, acc, out,
                      AnalyzeStlCall(fs, filepaths[i]))

analyze_multiple(fs, filepaths) == analyze_loop(fs, filepaths, 1, <<>>, <<>>)

(***************************************************************************)
(* AnalysisResult: derived values (src/analyzer.py)                        *)
(***************************************************************************)
\* variant: the volume in mm3 taken for cm3
get_mass_mm3(result, density) == FMul(result.volume, density)

\* AnalysisResult.get_mass
get_mass(result, density) == FMul(FDiv(result.volume, F(1000)), density)

MM_TO_IN == Q(393701, 10000000)
MM2_TO_IN2 == Q(155, 100000)

\* value * MM3_TO_IN3, with MM3_TO_IN3 = 0.0000610237 = 610237 / 10^5 / 10^5
MulMM3_TO_IN3(value) == FMul(FMul(value, Q(610237, 100000)), Q(1, 100000))

\* AnalysisResult.to_imperial
to_imperial(result) ==
    [filename |-> result.filename,
     length |-> FMul(result.length, MM_TO_IN),
     width |-> FMul(result.width, MM_TO_IN),
     height |-> FMul(result.height, MM_TO_IN),
     volume |-> MulMM3_TO_IN3(result.volume),
     surface_area |-> FMul(result.surface_area, MM2_TO_IN2),
     triangle_count |-> result.triangle_count,
     is_watertight |-> result.is_watertight]

\* variant: the export dictionary always in millimetres
to_dict_metric(result, imperial) ==
    [filename |-> result.filename,
     length |-> result.length,
     width |-> result.width,
     height |-> result.height,
     volume |-> result.volume,
     surface_area |-> result.surface_area,
     triangle_count |-> result.triangle_count,
     is_watertight |-> result.is_watertight]

\* AnalysisResult.to_dict
to_dict(result, imperial) ==
    IF imperial THEN to_imperial(result)
    ELSE [filename |-> result.filename,
          length |-> result.length,
          width |-> result.width,
          height |-> result.height,
          volume |-> result.volume,
          surface_area |-> result.surface_area,
          triangle_count |-> result.triangle_count,
          is_watertight |-> result.is_watertight]

\* CADAnalyzer.MATERIALS, densities in g/cm3
MATERIALS ==
    [PLA |-> Q(124, 100), ABS |-> Q(104, 100), PETG |-> Q(127, 100),
     Nylon |-> Q(115, 100), TPU |-> Q(121, 100), Resin |-> Q(110, 100),
     Aluminum |-> Q(270, 100), Steel |-> Q(785, 100),
     Titanium |-> Q(450, 100), Copper |-> Q(896, 100)]

\* CADAnalyzer.MATERIALS.get(material, 1.24)
Density(material) ==
    IF material \in DOMAIN MATERIALS THEN MATERIALS[material] ELSE Q(124, 100)

(***************************************************************************)
(* Estimates (src/gui.py)                                                  *)
(***************************************************************************)
\* variant: the shell and cap estimate without the cap at 95% of the volume
solid_shell_uncapped(result, wall_count_, top_bottom_layers, layer_height_, wall_width) ==
    FAdd(FMul(result.surface_area, FMul(F(wall_count_), wall_width)),
         FMul(FMul(FMul(FDiv(result.surface_area, F(6)), layer_height_),
                   F(top_bottom_layers)), F(2)))

\* solid_shell_volume = min(shell_volume + top_bottom_volume, volume * 0.95)
solid_shell_volume(result, wall_count_, top_bottom_layers, layer_height_, wall_width) ==
    LET wall_thickness == FMul(F(wall_count_), wall_width)
        shell_volume == FMul(result.surface_area, wall_thickness)
        estimated_footprint == FDiv(result.surface_area, F(6))
        top_bottom_volume ==
            FMul(FMul(FMul(estimated_footprint, layer_height_),
                      F(top_bottom_layers)), F(2))
    IN  PyMin(FAdd(shell_volume, top_bottom_volume),
              FMul(result.volume, Q(95, 100)))

\* infill_volume = max(0, volume_mm3 - solid_shell_volume)
infill_volume(result, solid_shell) ==
    PyMax(F(0), FSub(result.volume, solid_shell))

\* variant: the infill mass weighted by the empty fraction
mass_of_parts_empty(solid_shell, infill, density, infill_pct) ==
    FAdd(FMul(FDiv(solid_shell, F(1000)), density),
         FMul(FMul(FDiv(infill, F(1000)), density),
              FDiv(F(100 - infill_pct), F(100))))

\* mass = shell_mass + infill_mass
mass_of_parts(solid_shell, infill, density, infill_pct) ==
    FAdd(FMul(FDiv(solid_shell, F(1000)), density),
         FMul(FMul(FDiv(infill, F(1000)), density), FDiv(F(infill_pct), F(100))))

shell_infill_mass(result, solid_shell, density, infill_pct) ==
    mass_of_parts(solid_shell, infill_volume(result, solid_shell), density, infill_pct)

\* variant: the solid mass at every infill
calculate_solid_mass(result, density, infill_pct, wall_count_, top_bottom_layers, layer_height_, wall_width) ==
    get_mass(result, density)

\* variant: the infill read from the slider of the window, not the argument
calculate_mass_of_slider(result, density, infill_pct, wall_count_, top_bottom_layers, layer_height_, wall_width) ==
    IF infill_percent >= 100 THEN get_mass(result, density)
    ELSE shell_infill_mass(result,
             solid_shell_volume(result, wall_count_, top_bottom_layers,
                                layer_height_, wall_width),
             density, infill_percent)

\* CADAnalyzerApp._calculate_print_mass
calculate_print_mass(result, density, infill_pct, wall_count_, top_bottom_layers, layer_height_, wall_width) ==
    IF infill_pct >= 100 THEN get_mass(result, density)
    ELSE shell_infill_mass(result,
             solid_shell_volume(result, wall_count_, top_bottom_layers,
                                layer_height_, wall_width),
             density, infill_pct)

\* total_minutes = (extrusion + layer changes + travel) / 60, with
\* travel_time_sec = extrusion_time_sec * 0.25
total_minutes(extrusion_time_sec, layer_change_time_sec) ==
    FDiv(FAdd(FAdd(extrusion_time_sec, layer_change_time_sec),
              FMul(extrusion_time_sec, Q(25, 100))), F(60))

\* variant: the effective volume without the 30% floor
estimate_time_no_floor(result, infill_pct, layer_height_, print_speed_) ==
    total_minutes(FDiv(FMul(result.volume, FDiv(F(infill_pct), F(100))),
                       FMul(FMul(layer_height_, Q(4, 10)), F(print_speed_))),
                  FMul(FDiv(result.height, layer_height_), Q(15, 10)))

\* CADAnalyzerApp._estimate_print_time (travel_speed is not used)
estimate_print_time(result, infill_pct, layer_height_, print_speed_) ==
    LET effective_volume ==
            FMul(result.volume,
                 FAdd(Q(3, 10), FMul(Q(7, 10), FDiv(F(infill_pct), F(100)))))
        nozzle_width == Q(4, 10)
        extrusion_rate == FMul(FMul(layer_height_, nozzle_width), F(print_speed_))
        num_layers == FDiv(result.height, layer_height_)
    IN  total_minutes(FDiv(effective_volume, extrusion_rate),
                      FMul(num_layers, Q(15, 10)))

\* the defaults of the keyword arguments the callers leave out
DefaultTopBottomLayers == 4
DefaultWallWidth == Q(4, 10)

print_mass(result, density, infill, walls, layer_h) ==
    calculate_print_mass(result, density, infill, walls,
                         DefaultTopBottomLayers, layer_h, DefaultWallWidth)

(***************************************************************************)
(* Formatting.  f'{x:.kf}' rounds x to k decimals (ties to even); the      *)
(* string is modelled as the rounded number of 10^-k units with its unit   *)
(* suffix, and as "nan", "inf" or "-inf" for a value that is not finite.   *)
(***************************************************************************)
Pow10(k) == CASE k = 0 -> 1 [] k = 1 -> 10 [] k = 2 -> 100 [] k = 3 -> 1000

RoundInt(y) ==
    LET fl == y.n \div y.d
        r2 == 2 * (y.n % y.d)
    IN  IF r2 > y.d \/ (r2 = y.d /\ fl % 2 = 1) THEN fl + 1 ELSE fl

RoundHalfEven(x, k) == RoundInt(FMul(x, F(Pow10(k))))

Fmt(x, k, unit) ==
    IF IsNaN(x) THEN [text |-> "nan", dec |-> k, unit |-> unit]
    ELSE IF x = Inf THEN [text |-> "inf", dec |-> k, unit |-> unit]
    ELSE IF x = FNeg(Inf) THEN [text |-> "-inf", dec |-> k, unit |-> unit]
    ELSE [text |-> RoundHalfEven(x, k), dec |-> k, unit |-> unit]

(***************************************************************************)
(* Meshes and files used as inputs                                         *)
(***************************************************************************)
MaxCoord == 1
MaxBatch == 2

\* the closed tetrahedron on (0,0,0), (1,0,0), (0,1,0) and an apex
Tetra(apex) ==
    << <<V(0,0,0), V(0,1,0), V(1,0,0)>>, <<V(0,0,0), V(1,0,0), apex>>,
       <<V(1,0,0), V(0,1,0), apex>>,     <<V(0,1,0), V(0,0,0), apex>> >>

Grid == 0..MaxCoord
Vertices == {V(x, y, z) : x \in Grid, y \in Grid, z \in Grid}
NaNVertices == {<<NaN, F(y), F(z)>> : y \in Grid, z \in Grid}
               \cup {<<F(x), NaN, F(z)>> : x \in Grid, z \in Grid}
               \cup {<<F(x), F(y), NaN>> : x \in Grid, y \in Grid}

FiniteMeshes ==
    {<< <<a, b, c>> >> : a \in {v \in Vertices : v[1] = F(0)},
                         b \in Vertices, c \in Vertices}
    \cup {Tetra(a) : a \in Vertices}
    \cup {ReverseWinding(Tetra(a)) : a \in Vertices}
    \cup {<<Tetra(a)[1], Tetra(a)[3], Tetra(a)[2], Tetra(a)[4]>> \o
          ReverseWinding(<<Tetra(a)[2]>>) : a \in Vertices}
    \cup {Box(10, 10, 10), ReverseWinding(Box(10, 10, 10)),
          Box(2, 5, 3), Box(5, 3, 2), ReverseWinding(Box(3, 2, 5))}

\* meshes with an infinite coordinate
InfMeshes ==
    {<< <<V(0,0,0), <<Inf, F(1), F(1)>>, V(-1, 1, -1)>> >>,
     << <<<<Inf, F(0), F(0)>>, V(0,1,0), V(0,0,1)>> >>,
     << <<<<Inf, F(0), F(0)>>, <<Inf, F(1), F(0)>>, <<Inf, F(0), F(1)>>>> >>,
     << <<V(0,0,0), <<F(1), FNeg(Inf), F(0)>>, <<F(0), F(1), Inf>>>> >>}

NaNMeshes ==
    {<< <<a, b, c>> >> : a \in NaNVertices, b \in Vertices, c \in {V(0, 0, 0)}}
    \cup {<< <<V(0,0,0), V(1,0,0), V(0,1,0)>>, <<a, V(1,0,0), V(0,0,1)>> >> :
          a \in NaNVertices}

Meshes == FiniteMeshes \cup NaNMeshes \cup InfMeshes \cup {<<>>}

BoundedSeq(S, n) == UNION {[1..k -> S] : k \in 0..n}

(***************************************************************************)
(* State after CADAnalyzerApp.__init__                                     *)
(***************************************************************************)
Defaults ==
    /\ is_imperial = FALSE
    /\ selected_material = "PLA"
    /\ infill_percent = 20
    /\ layer_height = Q(1, 5)
    /\ print_speed = 50
    /\ wall_count = 3
    /\ table = <<>>
    /\ dialog = <<>>
    /\ printed = <<>>
    /\ written = None
    /\ clip = None
    /\ uncaught = NoException
    /\ returned = None
    /\ last = "init"

gui == <<is_imperial, selected_material, infill_percent, layer_height,
         print_speed, wall_count, table, dialog, written, clip>>

(***************************************************************************)
(* The window (src/gui.py).  files, results and the six settings are the   *)
(* attributes of CADAnalyzerApp; table is the list of row frames of        *)
(* results_scroll.  dialog, printed, written, clip and uncaught record     *)
(* what the handler that ran last showed in message boxes, wrote to        *)
(* standard output, saved to a file, put on the clipboard, and the         *)
(* exception that left it (reported by Tk, the window keeps running).      *)
(* returned is what a direct call of an estimate method gave.              *)
(***************************************************************************)
MaxFiles == 2

\* the values offered to the handlers in the interactive runs
GuiPaths == {CubeStl, BracketStl, EmptyStl, NanStl, NotesTxt}
GuiMaterials == {"PLA", "Steel"}
GuiInfills == {20, 100}
GuiLayers == {Q(1, 5), Q(3, 10)}
GuiSpeeds == {50}
GuiWalls == {3}

Range(f) == {f[i] : i \in DOMAIN f}

\* what a file dialog or a drop can deliver: up to two distinct paths
Selections ==
    {<<>>} \cup {<<a>> : a \in GuiPaths}
    \cup {s \in [1..2 -> GuiPaths] : s[1] # s[2]}

\* str.lower() of a file extension
Lower(ext) == CASE ext = ".STL" -> ".stl" [] OTHER -> ext

\* variant: every selected path is appended
AppendAll(old, new, stl_only) == old \o new

\* "for f in new: if keep(f) and f not in self.files: self.files.append(f)"
RECURSIVE AppendNew(_, _, _)
AppendNew(old, new, stl_only) ==
    IF new = <<>> THEN old
    ELSE LET f == new[1]
             take == (~stl_only \/ Lower(f.ext) = ".stl") /\ f \notin Range(old)
         IN  AppendNew(IF take THEN Append(old, f) ELSE old, Tail(new), stl_only)

\* the print settings as the handlers read them
Settings ==
    [imperial |-> is_imperial, material |-> selected_material,
     density |-> Density(selected_material), infill |-> infill_percent,
     layer_h |-> layer_height, speed |-> print_speed, walls |-> wall_count]

\* the time column of the table
time_str(print_time) ==
    IF FLt(print_time, F(60)) THEN Fmt(print_time, 0, " min")
    ELSE [h |-> print_time.n \div (60 * print_time.d),
          m |-> (print_time.n \div print_time.d) % 60]

\* one row of labels of _display_results
table_row(result, st) ==
    LET mass == print_mass(result, st.density, st.infill, st.walls, st.layer_h)
        time == estimate_print_time(result, st.infill, st.layer_h, st.speed)
    IN  [filename |-> result.filename,
         l_str |-> IF st.imperial THEN Fmt(FMul(result.length, MM_TO_IN), 2, "in")
                   ELSE Fmt(result.length, 1, "mm"),
         w_str |-> IF st.imperial THEN Fmt(FMul(result.width, MM_TO_IN), 2, "in")
                   ELSE Fmt(result.width, 1, "mm"),
         h_str |-> IF st.imperial THEN Fmt(FMul(result.height, MM_TO_IN), 2, "in")
                   ELSE Fmt(result.height, 1, "mm"),
         vol_str |-> IF st.imperial THEN Fmt(MulMM3_TO_IN3(result.volume), 3, "in3")
                     ELSE Fmt(result.volume, 0, "mm3"),
         mass_str |-> Fmt(mass, 1, "g"),
         time_str |-> time_str(time)]

\* print_time < 60 is False for NaN and +inf, print_time // 60 is then NaN
\* and int(NaN) raises ValueError
not_below_60(print_time) == ~IsFinite(print_time) /\ ~FLt(print_time, F(60))

row_raises(result, st) ==
    not_below_60(estimate_print_time(result, st.infill, st.layer_h, st.speed))

\* _display_results after _clear_results_table: a row per result up to the
\* first one that raises, for which only the empty row frame exists
table_entry(result, st) ==
    IF row_raises(result, st)
    THEN [raised |-> "ValueError", row |-> [filename |-> "(empty row)"]]
    ELSE [raised |-> NoException, row |-> table_row(result, st)]

\* the results and the settings of the interactive runs; a row depends on
\* nothing but the result and the settings: the rows for these, tabulated
GuiResults == {CatalogueOutcome[p].value : p \in GuiPaths} \ {None}

GuiSettings ==
    {[imperial |-> u, material |-> m, density |-> Density(m), infill |-> i,
      layer_h |-> h, speed |-> v, walls |-> w] :
        u \in BOOLEAN, m \in GuiMaterials \cup {"PLA"},
        i \in GuiInfills \cup {20}, h \in GuiLayers \cup {Q(1, 5)},
        v \in GuiSpeeds \cup {50}, w \in GuiWalls \cup {3}}

TableRows == [r \in GuiResults, st \in GuiSettings |-> table_entry(r, st)]

TableEntry(result, st) ==
    IF result \in GuiResults /\ st \in GuiSettings THEN TableRows[result, st]
    ELSE table_entry(result, st)

RECURSIVE display_rows(_, _, _, _)
display_row(rs, st, i, rows, e) ==
    IF e.raised # NoException
    THEN [table |-> Append(rows, e.row), raised |-> e.raised]
    ELSE display_rows(rs, st, i + 1, Append(rows, e.row))

display_rows(rs, st, i, rows) ==
    IF i > Len(rs) THEN [table |-> rows, raised |-> NoException]
    ELSE display_row(rs, st, i, rows, TableEntry(rs[i], st))

display_results(rs, st) == display_rows(rs, st, 1, <<>>)

\* _refresh_results with the settings st in force
RefreshWith(st) ==
    IF results # <<>>
    THEN \E d \in {display_results(results, st)} :
            table' = d.table /\ uncaught' = d.raised
    ELSE table' = table /\ uncaught' = NoException

Quiet == dialog' = <<>> /\ printed' = <<>> /\ written' = None /\ clip' = None

\* _browse_files
BrowseFiles ==
    \E sel \in Selections :
        /\ Len(AppendNew(files, sel, FALSE)) <= MaxFiles
        /\ files' = IF sel # <<>> THEN AppendNew(files, sel, FALSE) ELSE files
        /\ Quiet
        /\ uncaught' = NoException
        /\ last' = "_browse_files"
        /\ UNCHANGED <<returned, disk, results, is_imperial, selected_material,
                       infill_percent, layer_height, print_speed, wall_count,
                       table>>

\* _on_drop
OnDrop ==
    \E sel \in Selections :
        /\ Len(AppendNew(files, sel, TRUE)) <= MaxFiles
        /\ files' = AppendNew(files, sel, TRUE)
        /\ Quiet
        /\ uncaught' = NoException
        /\ last' = "_on_drop"
        /\ UNCHANGED <<returned, disk, results, is_imperial, selected_material,
                       infill_percent, layer_height, print_speed, wall_count,
                       table>>

\* _clear_files
ClearFiles ==
    /\ files' = <<>>
    /\ results' = <<>>
    /\ table' = <<>>
    /\ Quiet
    /\ uncaught' = NoException
    /\ last' = "_clear_files"
    /\ UNCHANGED <<returned, disk, is_imperial, selected_material, infill_percent,
                   layer_height, print_speed, wall_count>>

\* _analyze_files
AnalyzeFiles ==
    /\ last' = "_analyze_files"
    /\ written' = None
    /\ clip' = None
    /\ UNCHANGED <<returned, disk, files, is_imperial, selected_material, infill_percent,
                   layer_height, print_speed, wall_count>>
    /\ IF files = <<>>
       THEN /\ dialog' = <<[kind |-> "showwarning", title |-> "No Files",
                            message |-> "Please add STL files to analyze."]>>
            /\ printed' = <<>>
            /\ uncaught' = NoException
            /\ UNCHANGED <<results, table>>
       ELSE \E r \in {analyze_multiple(disk, files)} :
                /\ printed' = r.printed
                /\ IF r.raised # NoException
                   THEN /\ uncaught' = r.raised
                        /\ dialog' = <<>>
                        /\ UNCHANGED <<results, table>>
                   ELSE /\ results' = r.value
                        /\ IF r.value = <<>>
                           THEN /\ dialog' = <<[kind |-> "showerror", title |-> "Error",
                                     message |-> "Failed to analyze files. Check file format."]>>
                                /\ uncaught' = NoException
                                /\ table' = table
                           ELSE \E d \in {display_results(r.value, Settings)} :
                                    /\ dialog' = <<>>
                                    /\ table' = d.table
                                    /\ uncaught' = d.raised

\* variant: the stored results are converted when the units change
SetUnitsInPlace ==
    \E v \in BOOLEAN :
        /\ is_imperial' = v
        /\ results' = IF v /\ ~is_imperial
                      THEN [i \in 1..Len(results) |-> to_imperial(results[i])]
                      ELSE results
        /\ table' = table
        /\ uncaught' = NoException
        /\ Quiet
        /\ last' = "units"
        /\ UNCHANGED <<returned, disk, files, selected_material,
                       infill_percent, layer_height, print_speed, wall_count>>

\* the units radio buttons: the variable is set, then _refresh_results
SetUnits ==
    \E v \in BOOLEAN :
        /\ is_imperial' = v
        /\ RefreshWith([Settings EXCEPT !.imperial = v])
        /\ Quiet
        /\ last' = "units"
        /\ UNCHANGED <<returned, disk, files, results, selected_material, infill_percent,
                       layer_height, print_speed, wall_count>>

\* the material menu: the variable is set, then _refresh_results
SetMaterial ==
    \E v \in GuiMaterials :
        /\ selected_material' = v
        /\ RefreshWith([Settings EXCEPT !.material = v, !.density = Density(v)])
        /\ Quiet
        /\ last' = "material"
        /\ UNCHANGED <<returned, disk, files, results, is_imperial, infill_percent,
                       layer_height, print_speed, wall_count>>

\* the infill slider (_on_infill_change) and the presets (_set_infill)
SetInfill ==
    \E v \in GuiInfills, how \in {"_on_infill_change", "_set_infill"} :
        /\ infill_percent' = v
        /\ RefreshWith([Settings EXCEPT !.infill = v])
        /\ Quiet
        /\ last' = how
        /\ UNCHANGED <<returned, disk, files, results, is_imperial, selected_material,
                       layer_height, print_speed, wall_count>>

\* the layer, speed and wall menus: the variable is set, then
\* _on_settings_change
SetLayerHeight ==
    \E v \in GuiLayers :
        /\ layer_height' = v
        /\ RefreshWith([Settings EXCEPT !.layer_h = v])
        /\ Quiet
        /\ last' = "_on_settings_change"
        /\ UNCHANGED <<returned, disk, files, results, is_imperial, selected_material,
                       infill_percent, print_speed, wall_count>>

SetPrintSpeed ==
    \E v \in GuiSpeeds :
        /\ print_speed' = v
        /\ RefreshWith([Settings EXCEPT !.speed = v])
        /\ Quiet
        /\ last' = "_on_settings_change"
        /\ UNCHANGED <<returned, disk, files, results, is_imperial, selected_material,
                       infill_percent, layer_height, wall_count>>

SetWallCount ==
    \E v \in GuiWalls :
        /\ wall_count' = v
        /\ RefreshWith([Settings EXCEPT !.walls = v])
        /\ Quiet
        /\ last' = "_on_settings_change"
        /\ UNCHANGED <<returned, disk, files, results, is_imperial, selected_material,
                       infill_percent, layer_height, print_speed>>

\* one row of _export_csv; data is result.to_dict(imperial=imperial)
csv_row(result, data, st) ==
    [filename |-> result.filename,
     length |-> Fmt(data.length, 2, ""),
     width |-> Fmt(data.width, 2, ""),
     height |-> Fmt(data.height, 2, ""),
     volume |-> Fmt(data.volume, 3, ""),
     mass |-> Fmt(print_mass(result, st.density, st.infill, st.walls, st.layer_h), 2, ""),
     time |-> Fmt(estimate_print_time(result, st.infill, st.layer_h, st.speed), 1, "")]

CsvRows ==
    [r \in GuiResults, st \in GuiSettings |->
        csv_row(r, to_dict(r, st.imperial), st)]

CsvRow(result, st) ==
    IF result \in GuiResults /\ st \in GuiSettings THEN CsvRows[result, st]
    ELSE csv_row(result, to_dict(result, st.imperial), st)

csv_rows(rs, st) == [i \in 1..Len(rs) |-> CsvRow(rs[i], st)]

\* one line of _copy_clipboard
clipboard_row(result, data, st) ==
    [filename |-> result.filename,
     length |-> Fmt(data.length, 2, ""),
     width |-> Fmt(data.width, 2, ""),
     height |-> Fmt(data.height, 2, ""),
     volume |-> Fmt(data.volume, 2, ""),
     mass |-> Fmt(print_mass(result, st.density, st.infill, st.walls, st.layer_h), 2, ""),
     time |-> Fmt(estimate_print_time(result, st.infill, st.layer_h, st.speed), 1, " min")]

ClipboardRows ==
    [r \in GuiResults, st \in GuiSettings |->
        clipboard_row(r, to_dict(r, st.imperial), st)]

ClipboardRow(result, st) ==
    IF result \in GuiResults /\ st \in GuiSettings
    THEN ClipboardRows[result, st]
    ELSE clipboard_row(result, to_dict(result, st.imperial), st)

clipboard_rows(rs, st) == [i \in 1..Len(rs) |-> ClipboardRow(rs[i], st)]

\* export_data["results"] of _export_json
json_result(result, st) ==
    [data |-> to_dict(result, st.imperial),
     solid_mass_g |-> get_mass(result, st.density),
     print_mass_g |-> print_mass(result, st.density, st.infill, st.walls,
                                 st.layer_h),
     est_print_time_min |-> estimate_print_time(result, st.infill,
                                                st.layer_h, st.speed)]

JsonResults == [r \in GuiResults, st \in GuiSettings |-> json_result(r, st)]

JsonResult(result, st) ==
    IF result \in GuiResults /\ st \in GuiSettings THEN JsonResults[result, st]
    ELSE json_result(result, st)

json_results(rs, st) == [i \in 1..Len(rs) |-> JsonResult(rs[i], st)]

NoResultsWarning ==
    <<[kind |-> "showwarning", title |-> "No Results",
       message |-> "Run analysis first."]>>

\* variant: an export that does not look at the results list first
ExportCsvUnguarded ==
    /\ last' = "_export_csv"
    /\ clip' = None
    /\ printed' = <<>>
    /\ uncaught' = NoException
    /\ written' = [path |-> "out.csv",
                   header |-> [unit |-> IF is_imperial THEN "in" ELSE "mm",
                               vol_unit |-> IF is_imperial THEN "in3" ELSE "mm3",
                               material |-> selected_material,
                               infill |-> infill_percent],
                   rows |-> csv_rows(results, Settings)]
    /\ dialog' = <<[kind |-> "showinfo", title |-> "Exported",
                    message |-> "Saved to", path |-> "out.csv"]>>
    /\ UNCHANGED <<returned, disk, files, results, is_imperial, selected_material,
                   infill_percent, layer_height, print_speed, wall_count,
                   table>>

\* _export_csv; filepath is what asksaveasfilename returns
ExportCsv ==
    \E filepath \in {"", "out.csv"} :
        /\ last' = "_export_csv"
        /\ clip' = None
        /\ printed' = <<>>
        /\ uncaught' = NoException
        /\ IF results = <<>>
           THEN dialog' = NoResultsWarning /\ written' = None
           ELSE IF filepath = ""
           THEN dialog' = <<>> /\ written' = None
           ELSE /\ written' =
                      [path |-> filepath,
                       header |-> [unit |-> IF is_imperial THEN "in" ELSE "mm",
                                   vol_unit |-> IF is_imperial THEN "in3" ELSE "mm3",
                                   material |-> selected_material,
                                   infill |-> infill_percent],
                       rows |-> csv_rows(results, Settings)]
                /\ dialog' = <<[kind |-> "showinfo", title |-> "Exported",
                                message |-> "Saved to", path |-> filepath]>>
        /\ UNCHANGED <<returned, disk, files, results, is_imperial, selected_material,
                       infill_percent, layer_height, print_speed, wall_count,
                       table>>

\* _export_json
ExportJson ==
    \E filepath \in {"", "out.json"} :
        /\ last' = "_export_json"
        /\ clip' = None
        /\ printed' = <<>>
        /\ uncaught' = NoException
        /\ IF results = <<>>
           THEN dialog' = NoResultsWarning /\ written' = None
           ELSE IF filepath = ""
           THEN dialog' = <<>> /\ written' = None
           ELSE /\ written' =
                      [path |-> filepath,
                       settings |-> [units |-> IF is_imperial THEN "imperial"
                                               ELSE "metric",
                                     material |-> selected_material,
                                     density_g_cm3 |-> Density(selected_material),
                                     infill_percent |-> infill_percent,
                                     layer_height_mm |-> layer_height,
                                     print_speed_mm_s |-> print_speed,
                                     wall_count |-> wall_count],
                       results |-> json_results(results, Settings)]
                /\ dialog' = <<[kind |-> "showinfo", title |-> "Exported",
                                message |-> "Saved to", path |-> filepath]>>
        /\ UNCHANGED <<returned, disk, files, results, is_imperial, selected_material,
                       infill_percent, layer_height, print_speed, wall_count,
                       table>>

\* _copy_clipboard
CopyClipboard ==
    /\ last' = "_copy_clipboard"
    /\ written' = None
    /\ printed' = <<>>
    /\ uncaught' = NoException
    /\ IF results = <<>>
       THEN dialog' = NoResultsWarning /\ clip' = None
       ELSE /\ clip' = [header |-> [unit |-> IF is_imperial THEN "in" ELSE "mm"],
                        rows |-> clipboard_rows(results, Settings)]
            /\ dialog' = <<[kind |-> "showinfo", title |-> "Copied",
                            message |-> "Results copied to clipboard!\nPaste into Excel or Word."]>>
    /\ UNCHANGED <<returned, disk, files, results, is_imperial, selected_material,
                   infill_percent, layer_height, print_speed, wall_count, table>>

Init ==
    /\ Defaults
    /\ disk = Catalogue
    /\ files = <<>>
    /\ results = <<>>

Next ==
    \/ BrowseFiles
    \/ OnDrop
    \/ ClearFiles
    \/ AnalyzeFiles
    \/ SetUnits
    \/ SetMaterial
    \/ SetInfill
    \/ SetLayerHeight
    \/ SetPrintSpeed
    \/ SetWallCount
    \/ ExportCsv
    \/ ExportJson
    \/ CopyClipboard

Spec == Init /\ [][Next]_vars

(***************************************************************************)
(* Library use: one call of CADAnalyzer.analyze_multiple(files)            *)
(***************************************************************************)
AnalyzeInit ==
    /\ Defaults
    /\ results = <<>>
    /\ \/ /\ disk = Catalogue
          /\ files \in BoundedSeq(Paths, MaxBatch)
       \/ /\ \E m \in Meshes :
                disk = (P("part", ".stl") :> [kind |-> "mesh", tris |-> m])
          /\ files = <<P("part", ".stl")>>
       \/ /\ \E k \in {"missing", "unreadable", "corrupt"} :
                disk = (P("part", ".stl") :> [kind |-> k])
          /\ files = <<P("part", ".stl")>>

CallAnalyzeMultiple ==
    /\ last = "init"
    /\ \E r \in {analyze_multiple(disk, files)} :
           /\ results' = IF r.raised = NoException THEN r.value ELSE results
           /\ printed' = r.printed
           /\ uncaught' = r.raised
    /\ last' = "analyze_multiple"
    /\ UNCHANGED <<returned, disk, files, gui>>

AnalyzeNext == CallAnalyzeMultiple

SpecAnalyze == AnalyzeInit /\ [][AnalyzeNext]_vars

(***************************************************************************)
(* The estimates: the window has analysed one file under some choice of    *)
(* the print settings, and _calculate_print_mass or _estimate_print_time   *)
(* is called for the result with the settings in force.                    *)
(***************************************************************************)
PartStl == P("part", ".stl")

EstMeshes ==
    {Box(10, 10, 10), Box(1, 1, 1), Box(2, 5, 3),
     ReverseWinding(Tetra(V(0, 0, 1))),
     << <<V(0,0,0), V(1,0,0), V(0,1,0)>> >>}
    \cup InfMeshes
    \cup {<< <<<<NaN, F(0), F(0)>>, V(1,0,0), V(0,1,0)>> >>}

\* the values the settings widgets offer (two of the ten materials and
\* two of the six speeds)
EstMaterials == {"PLA", "Copper"}
SpeedValues == {50, 80}
InfillValues == {5 * i : i \in 0..20} \cup {10, 20, 50, 100}
LayerValues == {Q(1, 10), Q(15, 100), Q(1, 5), Q(28, 100), Q(3, 10)}
WallValues == {2, 3, 4, 5}

PartDisk(m) == PartStl :> [kind |-> "mesh", tris |-> m]

\* analyze_multiple reads nothing but the files: its outcomes on these
\* meshes, tabulated
EstOutcome == [m \in EstMeshes |-> analyze_multiple(PartDisk(m), <<PartStl>>)]

Displayed(d) == table = d.table /\ uncaught = d.raised

EstInit ==
    /\ \E m \in EstMeshes :
          /\ disk = PartDisk(m)
          /\ results = EstOutcome[m].value
          /\ printed = EstOutcome[m].printed
    /\ files = <<PartStl>>
    /\ is_imperial = FALSE
    /\ print_speed \in SpeedValues
    /\ selected_material \in EstMaterials
    /\ infill_percent \in InfillValues
    /\ layer_height \in LayerValues
    /\ wall_count \in WallValues
    /\ \E d \in {display_results(results, Settings)} : Displayed(d)
    /\ dialog = <<>>
    /\ written = None
    /\ clip = None
    /\ returned = None
    /\ last = "_analyze_files"

\* solid_shell_volume and infill_volume as _calculate_print_mass has them
\* when it returns
shell_locals(result, solid_shell) ==
    [solid_shell_volume |-> solid_shell,
     infill_volume |-> infill_volume(result, solid_shell)]

print_mass_locals(result, infill_pct, walls, layer_h) ==
    IF infill_pct >= 100 THEN None
    ELSE shell_locals(result,
             solid_shell_volume(result, walls, DefaultTopBottomLayers,
                                layer_h, DefaultWallWidth))

\* self._calculate_print_mass(result, density, infill, wall_count=...,
\* layer_height=...)
CallCalculatePrintMass ==
    /\ last = "_analyze_files"
    /\ returned' =
          [mass |-> print_mass(results[1], Density(selected_material),
                               infill_percent, wall_count, layer_height),
           locals |-> print_mass_locals(results[1], infill_percent,
                                        wall_count, layer_height)]
    /\ last' = "_calculate_print_mass"
    /\ UNCHANGED <<disk, files, results, gui, printed, uncaught>>

\* self._estimate_print_time(result, infill, layer_height, print_speed)
CallEstimatePrintTime ==
    /\ last = "_analyze_files"
    /\ returned' =
          [minutes |-> estimate_print_time(results[1], infill_percent,
                                           layer_height, print_speed)]
    /\ last' = "_estimate_print_time"
    /\ UNCHANGED <<disk, files, results, gui, printed, uncaught>>

EstNext == CallCalculatePrintMass \/ CallEstimatePrintTime

SpecEst == EstInit /\ [][EstNext]_vars

(***************************************************************************)
(* Properties of analyze_stl and analyze_multiple (SpecAnalyze)            *)
(***************************************************************************)
Called == last = "analyze_multiple"

\* what analyze_stl returns for each path of the batch, in order, and the
\* triangles the loader delivers for it
Outcomes == [i \in 1..Len(files) |-> AnalyzeStlCall(disk, files[i]).value]
Vectors(i) == from_file(disk, files[i]).vectors
Loads(i) == from_file(disk, files[i]).raised = NoException

IsResult(v) == v # None

IsAnalysisResult(v) ==
    DOMAIN v = {"filename", "length", "width", "height", "volume",
                "surface_area", "triangle_count", "is_watertight"}

FiniteMesh(vectors) ==
    \A i \in 1..Len(vectors) : \A j \in 1..3 : \A k \in 1..3 :
        IsFinite(vectors[i][j][k])

\* C1: analyze_multiple returns exactly the results of the files that
\* analyze successfully, in the order of the input paths; a failing file
\* is skipped wherever it stands and no exception leaves the call.
C1_SkipsFailures ==
    Called => /\ uncaught = NoException
              /\ results = SelectSeq(Outcomes, IsResult)

C1_Witness ==
    /\ Called
    /\ Len(files) = 2
    /\ Outcomes[1] = None
    /\ Outcomes[2] # None
    /\ results = <<Outcomes[2]>>

\* C2: for every path (missing, unreadable, corrupt, zero triangles, valid
\* mesh) analyze_stl returns an AnalysisResult or None and no exception
\* leaves it, nor the batch call built on it.
C2_Total ==
    /\ \A i \in 1..Len(files) :
          /\ analyze_stl(disk, files[i]).raised = NoException
          /\ Outcomes[i] = None \/ IsAnalysisResult(Outcomes[i])
    /\ Called => uncaught = NoException

C2_Witness ==
    /\ Called
    /\ \E i \in 1..Len(files) :
          from_file(disk, files[i]).raised = "RuntimeError"
    /\ \E i \in 1..Len(files) : Loads(i) /\ Vectors(i) = <<>>
    /\ results = <<>>
    /\ Len(printed) = 2
    /\ uncaught = NoException

\* C3: a file that holds zero triangles gives None; no result has
\* triangle_count = 0 and the batch holds no result for such a file.
C3_NoEmptyResult ==
    /\ \A i \in 1..Len(files) :
          (Loads(i) /\ Vectors(i) = <<>>) => Outcomes[i] = None
    /\ Called =>
          \A j \in 1..Len(results) :
              /\ results[j].triangle_count > 0
              /\ \A i \in 1..Len(files) :
                    (Loads(i) /\ Vectors(i) = <<>>)
                        => results[j].filename # files[i].stem

C3_Witness ==
    /\ Called
    /\ files = <<EmptyStl, CubeStl>>
    /\ Len(results) = 1
    /\ results[1].filename = "cube"
    /\ printed = <<[text |-> "Error analyzing", file |-> EmptyStl,
                    reason |-> "ValueError"]>>

\* the extent of a mesh on axis k: the largest difference of two of its
\* coordinates on that axis
Extent(vectors, k) ==
    CHOOSE e \in {FSub(a, b) : a, b \in AxisValues(vectors, k)} :
        \A c, d \in AxisValues(vectors, k) : FLe(FSub(c, d), e)

Ordered(r) ==
    FGe(r.length, r.width) /\ FGe(r.width, r.height) /\ FGe(r.height, F(0))

SameExtents(r, vectors) ==
    \E p \in [1..3 -> 1..3] :
        /\ \A a, b \in 1..3 : p[a] = p[b] => a = b
        /\ r.length = Extent(vectors, p[1])
        /\ r.width = Extent(vectors, p[2])
        /\ r.height = Extent(vectors, p[3])

C7_Watertight ==
    Called => \A j \in 1..Len(results) :
                  results[j].is_watertight
                      <=> (FGt(results[j].volume, F(0))
                           /\ FGt(results[j].surface_area, F(0)))

C7_Witness ==
    /\ Called
    /\ Len(results) = 1
    /\ ~results[1].is_watertight
    /\ results[1].volume = F(0)
    /\ FGt(results[1].surface_area, F(0))

(***************************************************************************)
(* Properties of the estimates (SpecEst)                                   *)
(***************************************************************************)
MassReturned == last = "_calculate_print_mass"

\* shell_volume + top_bottom_volume and 95% of the volume, from the
\* settings in force
ShellAndCaps ==
    FAdd(FMul(FMul(results[1].surface_area, F(wall_count)), Q(4, 10)),
         FMul(FMul(FMul(FDiv(results[1].surface_area, F(6)), layer_height),
                   F(4)), F(2)))

VolumeCap == FMul(Q(95, 100), results[1].volume)

ShellWithinVolume ==
    /\ returned.locals.solid_shell_volume
          = (IF FLt(VolumeCap, ShellAndCaps) THEN VolumeCap ELSE ShellAndCaps)
    /\ FLe(returned.locals.solid_shell_volume, VolumeCap)
    /\ FGe(returned.locals.infill_volume, F(0))
    /\ FEq(FAdd(returned.locals.solid_shell_volume,
                returned.locals.infill_volume), results[1].volume)

\* C9 as stated: for infill < 100 and every result with volume >= 0 the
\* solid shell volume is the lesser of the shell and cap estimate and 95%
\* of the volume, the infill volume is >= 0 and the two add up to the volume.
C9_AnyVolume ==
    (MassReturned /\ infill_percent < 100 /\ FGe(results[1].volume, F(0)))
        => ShellWithinVolume

\* C9: for infill < 100 and every result with a finite volume >= 0 and a
\* finite surface area, the solid shell volume is the lesser of the shell
\* and cap estimate and 95% of the volume, so it is at most 95% of the
\* volume, the infill volume is >= 0 and the two add up to the volume.
C9_FiniteVolume ==
    (MassReturned /\ infill_percent < 100
     /\ IsFinite(results[1].volume) /\ FGe(results[1].volume, F(0))
     /\ IsFinite(results[1].surface_area))
        => ShellWithinVolume

\* the cap is in force: the 1 mm cube
C9_Witness ==
    /\ MassReturned
    /\ infill_percent = 20
    /\ results[1].volume = F(1)
    /\ FGt(ShellAndCaps, VolumeCap)
    /\ returned.locals.solid_shell_volume = Q(95, 100)
    /\ returned.locals.infill_volume = Q(5, 100)

\* 0 < print mass < solid mass
MassBetween ==
    /\ FGt(returned.mass, F(0))
    /\ FLt(returned.mass, get_mass(results[1], Density(selected_material)))

\* C10 as stated: for every result with volume > 0 and surface_area > 0,
\* density > 0 and infill < 100, 0 < print mass < solid mass.
C10_AnyPositive ==
    (MassReturned /\ infill_percent < 100
     /\ FGt(results[1].volume, F(0)) /\ FGt(results[1].surface_area, F(0)))
        => MassBetween

\* C10: for every result with finite volume > 0 and finite surface_area > 0,
\* density > 0 and infill < 100, 0 < print mass < solid mass.
C10_FinitePositive ==
    (MassReturned /\ infill_percent < 100
     /\ IsFinite(results[1].volume) /\ FGt(results[1].volume, F(0))
     /\ IsFinite(results[1].surface_area)
     /\ FGt(results[1].surface_area, F(0)))
        => MassBetween

\* the 10 mm cube in PLA at 0% infill, 3 walls, 0.2 mm layers: 1.0912 g
\* against 1.24 g solid
C10_Witness ==
    /\ MassReturned
    /\ results[1].volume = F(1000)
    /\ selected_material = "PLA"
    /\ infill_percent = 0
    /\ wall_count = 3
    /\ layer_height = Q(1, 5)
    /\ returned.mass = Q(682, 625)
    /\ get_mass(results[1], Density(selected_material)) = Q(124, 100)

(***************************************************************************)
(* Properties of the window (Spec)                                         *)
(***************************************************************************)
Analyzed == last = "_analyze_files"

\* a message box that names the file f and gives a reason
Names(d, f) == "file" \in DOMAIN d /\ d.file = f /\ "reason" \in DOMAIN d

\* C4: after Analyze, for every file of the batch whose analysis failed
\* the user is told which file it was and why, also when other files of
\* the batch succeeded.
C4_CallerInformed ==
    Analyzed =>
        \A i \in 1..Len(files) :
            Outcomes[i] = None
                => \E k \in 1..Len(dialog) : Names(dialog[k], files[i])

\* C8 as stated: every handler other than Analyze and Clear All leaves the
\* results, their fields and the file list unchanged.
C8_AllHandlersFrame ==
    [][last' \notin {"_analyze_files", "_clear_files"}
          => (results' = results /\ files' = files)]_vars

\* C8: every handler other than Analyze and Clear All leaves the results
\* and their fields unchanged, and every handler other than Analyze,
\* Clear All, Browse and Drop leaves the file list unchanged.
C8_Frame ==
    [][/\ last' \notin {"_analyze_files", "_clear_files"}
             => results' = results
       /\ last' \notin {"_analyze_files", "_clear_files", "_browse_files",
                         "_on_drop"}
             => files' = files]_vars

\* an export in inches of a stored result that is still in millimetres
C8_Witness ==
    /\ last = "_export_csv"
    /\ is_imperial
    /\ written # None
    /\ files = <<CubeStl>>
    /\ Len(results) = 1
    /\ results[1] = CatalogueOutcome[CubeStl].value
    /\ results[1].length = F(10)
    /\ written.rows[1].length = Fmt(Q(393701, 1000000), 2, "")

(***************************************************************************)
(* Solid mass and print time (SpecEst)                                     *)
(***************************************************************************)
SolidMass == FMul(FDiv(results[1].volume, F(1000)), Density(selected_material))

\* C11: the solid mass is volume / 1000 * density, and at infill >= 100
\* _calculate_print_mass returns exactly the solid mass and computes no
\* shell or infill volume; the 1000 mm3 cube at density 1.24 gives 1.24 g.
C11_SolidMass ==
    /\ get_mass(results[1], Density(selected_material)) = SolidMass
    /\ (MassReturned /\ infill_percent >= 100)
          => (returned.mass = SolidMass /\ returned.locals = None)

C11_Witness ==
    /\ MassReturned
    /\ infill_percent = 100
    /\ selected_material = "PLA"
    /\ results[1].volume = F(1000)
    /\ returned.mass = Q(124, 100)

TimeReturned == last = "_estimate_print_time"

\* the extrusion time in seconds of the whole volume, and of the part of
\* it that infill i leaves
FullExtrusion ==
    FDiv(results[1].volume, FMul(FMul(layer_height, Q(4, 10)), F(print_speed)))

ExtrusionAt(i) == FMul(FullExtrusion, FAdd(Q(3, 10), Q(7 * i, 1000)))

MinutesAt(i) ==
    FDiv(FAdd(FAdd(ExtrusionAt(i),
                   FMul(FDiv(results[1].height, layer_height), Q(3, 2))),
              FMul(Q(1, 4), ExtrusionAt(i))), F(60))

TimeFormula ==
    /\ returned.minutes = MinutesAt(infill_percent)
    /\ infill_percent = 0 => ExtrusionAt(0) = FMul(Q(3, 10), FullExtrusion)

TimeIncreasing ==
    \A j \in InfillValues :
        j > infill_percent
            => FLt(returned.minutes,
                   estimate_print_time(results[1], j, layer_height, print_speed))

Estimates(a) ==
    [solid_mass |-> get_mass(a.result, a.density),
     print_mass |-> print_mass(a.result, a.density, a.infill, a.walls,
                               a.layer_h),
     print_time |-> estimate_print_time(a.result, a.infill, a.layer_h,
                                        a.speed)]

FirstOutputs(a) == [args |-> a, first |-> Estimates(a), second |-> None]

\* result.get_mass(density), self._calculate_print_mass(...) and
\* self._estimate_print_time(...) for a stored result and the settings in
\* force
CallEstimators ==
    /\ \E i \in 1..Len(results) :
          returned' = FirstOutputs([result |-> results[i],
                                    density |-> Density(selected_material),
                                    infill |-> infill_percent,
                                    walls |-> wall_count,
                                    layer_h |-> layer_height,
                                    speed |-> print_speed])
    /\ last' = "estimators"
    /\ UNCHANGED <<disk, files, results, gui, printed, uncaught>>

\* the same three calls again, with the arguments of the first time
CallEstimatorsAgain ==
    /\ returned # None
    /\ returned.second = None
    /\ returned' = [returned EXCEPT !.second = Estimates(returned.args)]
    /\ last' = "estimators again"
    /\ UNCHANGED <<disk, files, results, gui, printed, uncaught>>

PureInit ==
    /\ Defaults
    /\ disk = Catalogue
    /\ files = <<CubeStl, NanStl>>
    /\ results = <<>>

PureNext ==
    \/ AnalyzeFiles
    \/ ClearFiles
    \/ SetUnits
    \/ SetMaterial
    \/ SetInfill
    \/ SetLayerHeight
    \/ ExportCsv
    \/ ExportJson
    \/ CopyClipboard
    \/ CallEstimators
    \/ CallEstimatorsAgain

SpecPure == PureInit /\ [][PureNext]_vars

InUnits(result) ==
    IF is_imperial
    THEN [length |-> FMul(result.length, Q(393701, 10000000)),
          width |-> FMul(result.width, Q(393701, 10000000)),
          height |-> FMul(result.height, Q(393701, 10000000)),
          volume |-> MulMM3_TO_IN3(result.volume)]
    ELSE [length |-> result.length, width |-> result.width,
          height |-> result.height, volume |-> result.volume]

\* the settings in force with the other unit system selected
OtherUnits == [Settings EXCEPT !.imperial = ~is_imperial]

\* the rows of a CSV file or of the clipboard text
TextRowsOk(rows, vol_digits, time_suffix, other) ==
    /\ Len(rows) = Len(results)
    /\ \A i \in 1..Len(results) :
          /\ rows[i].filename = results[i].filename
          /\ rows[i].length = Fmt(InUnits(results[i]).length, 2, "")
          /\ rows[i].width = Fmt(InUnits(results[i]).width, 2, "")
          /\ rows[i].height = Fmt(InUnits(results[i]).height, 2, "")
          /\ rows[i].volume = Fmt(InUnits(results[i]).volume, vol_digits, "")
          /\ rows[i].mass = other[i].mass
          /\ rows[i].time = other[i].time
          /\ rows[i].time =
                Fmt(estimate_print_time(results[i], infill_percent, layer_height,
                                        print_speed), 1, time_suffix)

\* the result objects of a JSON file
JsonRowsOk(rows, other) ==
    /\ Len(rows) = Len(results)
    /\ \A i \in 1..Len(results) :
          /\ rows[i].data.filename = results[i].filename
          /\ rows[i].data.length = InUnits(results[i]).length
          /\ rows[i].data.width = InUnits(results[i]).width
          /\ rows[i].data.height = InUnits(results[i]).height
          /\ rows[i].data.volume = InUnits(results[i]).volume
          /\ rows[i].print_mass_g = other[i].print_mass_g
          /\ rows[i].est_print_time_min = other[i].est_print_time_min
          /\ rows[i].est_print_time_min =
                estimate_print_time(results[i], infill_percent, layer_height,
                                    print_speed)

\* C14: a CSV file, a JSON file and the clipboard text hold one row per
\* entry of the results list, in results order, with length, width, height
\* and volume multiplied by 0.0393701 and 0.0000610237 exactly when
\* imperial is selected and raw otherwise, and with the mass and the time
\* that the same export gives with the other unit system selected.
C14_ExportRows ==
    /\ (last = "_export_csv" /\ written # None)
          => TextRowsOk(written.rows, 3, "", csv_rows(results, OtherUnits))
    /\ (last = "_export_json" /\ written # None)
          => JsonRowsOk(written.results, json_results(results, OtherUnits))
    /\ (last = "_copy_clipboard" /\ clip # None)
          => TextRowsOk(clip.rows, 2, " min",
                        clipboard_rows(results, OtherUnits))

\* a JSON export in inches of two results, the bracket first
C14_Witness ==
    /\ last = "_export_json"
    /\ written # None
    /\ is_imperial
    /\ files = <<BracketStl, CubeStl>>
    /\ Len(results) = 2
    /\ Len(written.results) = 2
    /\ written.results[2].data.filename = results[2].filename
    /\ results[2].length = F(10)
    /\ written.results[2].data.length = Q(393701, 1000000)
    /\ written.results[2].data.volume = Q(610237, 10000000)
    /\ written.results[1].data.filename # written.results[2].data.filename

(***************************************************************************)
(* The results table when files change on disk between two runs of         *)
(* Analyze (SpecDisk).  analyze_stl opens the file again at every run.     *)
(***************************************************************************)
\* a loaded file is deleted from the disk by another program
RemoveFile ==
    \E p \in Range(files) \cap {CubeStl, BracketStl} :
        /\ disk[p].kind # "missing"
        /\ disk' = [disk EXCEPT ![p] = [kind |-> "missing"]]
        /\ Quiet
        /\ uncaught' = NoException
        /\ last' = "file removed"
        /\ UNCHANGED <<returned, files, results, is_imperial, selected_material,
                       infill_percent, layer_height, print_speed, wall_count,
                       table>>

DiskNext ==
    \/ BrowseFiles
    \/ OnDrop
    \/ ClearFiles
    \/ AnalyzeFiles
    \/ SetUnits
    \/ RemoveFile

SpecDisk == Init /\ [][DiskNext]_vars

\* the table has one row per entry of the results list, in order
TableIsResults ==
    /\ Len(table) = Len(results)
    /\ \A i \in 1..Len(results) : table[i].filename = results[i].filename

\* C15: after every Analyze that ran to its end, also one in which every
\* file failed to load after an earlier successful Analyze, the rows of
\* the results table are those of the current results list, in order.
C15_TableIsResults ==
    (last = "_analyze_files" /\ uncaught = NoException) => TableIsResults

\* an Analyze in which every file failed, with the rows of the earlier
\* Analyze still shown
C15_StaleRows ==
    /\ last = "_analyze_files"
    /\ uncaught = NoException
    /\ files = <<CubeStl>>
    /\ results = <<>>
    /\ Len(table) = 1
    /\ table[1].filename = CatalogueOutcome[CubeStl].value.filename

(***************************************************************************)
(* The file list (Spec)                                                    *)
(***************************************************************************)
NoDuplicates(fs) == \A i, j \in 1..Len(fs) : fs[i] = fs[j] => i = j

\* old is the beginning of new
IsPrefix(old, new) ==
    /\ Len(old) <= Len(new)
    /\ \A i \in 1..Len(old) : new[i] = old[i]

\* C16: the file list never holds a path twice; Browse and Drop keep the
\* paths already loaded at their positions and add behind them; Drop adds
\* only paths that end in ".stl" in any letter case; Clear All leaves the
\* file list and the results list empty.
C16_FileList ==
    [][/\ NoDuplicates(files')
       /\ last' \in {"_browse_files", "_on_drop"} => IsPrefix(files, files')
       /\ last' = "_on_drop"
             => \A i \in (Len(files) + 1)..Len(files') :
                   Lower(files'[i].ext) = ".stl"
       /\ last' = "_clear_files" => (files' = <<>> /\ results' = <<>>)]_vars

\* a drop that added BRACKET.STL behind a file loaded before
C16_Witness ==
    /\ last = "_on_drop"
    /\ files = <<CubeStl, BracketStl>>
    /\ BracketStl.ext = ".STL"
    /\ NoDuplicates(files)

(***************************************************************************)
(* Print mass against the infill (SpecEst)                                 *)
(***************************************************************************)
\* the print mass of the analysed part at infill j, other settings in force
MassAt(j) ==
    print_mass(results[1], Density(selected_material), j, wall_count,
               layer_height)

\* the returned mass is at most the mass at every higher infill up to 100
\* and at most the solid mass
MassNonDecreasing ==
    /\ \A j \in InfillValues :
          j >= infill_percent => FLe(returned.mass, MassAt(j))
    /\ FLe(returned.mass, MassAt(100))
    /\ FLe(returned.mass, SolidMass)

Exported == last' \in {"_export_csv", "_export_json", "_copy_clipboard"}

WarnsOnly(title, message) ==
    /\ dialog' = <<[kind |-> "showwarning", title |-> title,
                    message |-> message]>>
    /\ written' = None
    /\ clip' = None
    /\ UNCHANGED <<files, results, table, is_imperial, selected_material,
                   infill_percent, layer_height, print_speed, wall_count>>

\* C18: with an empty results list Export CSV, Export JSON and Copy to
\* Clipboard show the warning "No Results" and nothing else: no file is
\* written, the clipboard is not set, and the file list, the results list
\* and the settings stay as they are; Analyze with an empty file list
\* shows the warning "No Files" and changes nothing either.
C18_WarnOnly ==
    [][/\ (results = <<>> /\ Exported)
             => WarnsOnly("No Results", "Run analysis first.")
       /\ (files = <<>> /\ last' = "_analyze_files")
             => WarnsOnly("No Files", "Please add STL files to analyze.")]_vars

\* Export JSON after an Analyze of notes.txt alone, which gave no result
C18_Witness ==
    /\ last = "_export_json"
    /\ files = <<NotesTxt>>
    /\ results = <<>>
    /\ dialog = NoResultsWarning
    /\ written = None
    /\ clip = None

====
